---- MODULE Spec2Model ----
(***************************************************************************)
(* Model of src/app.py: the 3-channel signal modulation oscilloscope.      *)
(*                                                                         *)
(* Numbers.  The program computes on floating-point arrays.  The model     *)
(* computes on exact reals of the form                                     *)
(*                                                                         *)
(*     a/2 * sin(p*pi/4 + r/4)  +  g*pi/8  +  o/2                          *)
(*                                                                         *)
(* held as records [a, p, r, g, o] of integers (a "sample").  The time     *)
(* axis is a sequence of instants counted in quarter seconds, frequencies  *)
(* are whole Hz, amplitudes, offsets and modulation indices whole numbers, *)
(* duty cycles tenths: all are positions the sliders of the program can    *)
(* take.  With these inputs every value the program computes has an exact  *)
(* representation, so the model evaluates the formulas of the source and   *)
(* does not approximate them.                                              *)
(***************************************************************************)
EXTENDS Integers, Sequences, FiniteSets, TLC

\* ------------------------------------------------------------------ bounds

\* Number of samples of the time axis built by main (np.linspace(0, 10, 10000)).
AxisLen == 3

\* Longest buffer handed to the signal functions when they are exercised alone.
MaxBufLen == 3

\* User interactions (widget changes) followed in one session.
MaxEdits == 2

\* Frames of the redraw loop followed in one script run.
MaxTicks == 2

\* ------------------------------------------------------- program constants

\* First instant of the time axis: np.linspace(0, ...).
AxisStart == 0

\* Channels of the oscilloscope: for i in range(3).
NumChannels == 3

\* ---------------------------------------------------------------- samples

Sgn(n) == IF n > 0 THEN 1 ELSE IF n < 0 THEN -1 ELSE 0

AbsInt(n) == IF n < 0 THEN -n ELSE n

\* The exact number v/2.
Num(v) == [a |-> 0, p |-> 0, r |-> 0, g |-> 0, o |-> v]

IsExact(s) == s.a = 0 /\ s.g = 0

\* g * pi/8.
PiEighths(g) == [a |-> 0, p |-> 0, r |-> 0, g |-> g, o |-> 0]

\* floor(r / pi) for an integer r, from 333/106 < pi < 355/113.  Both bounds
\* give the same floor for every r the model meets; a CASE with no arm that
\* applies stops TLC instead of guessing.
FloorDivPi(r) ==
    LET lo == IF r >= 0 THEN (r * 113) \div 355 ELSE (r * 106) \div 333
        hi == IF r >= 0 THEN (r * 106) \div 333 ELSE (r * 113) \div 355
    IN  CASE lo = hi -> lo

\* Sign of sin(p*pi/4 + r/4).
SinSign(p, r) ==
    IF r = 0
    THEN LET m == p % 8 IN IF m = 0 \/ m = 4 THEN 0 ELSE IF m < 4 THEN 1 ELSE -1
    ELSE IF ((p + FloorDivPi(r)) \div 4) % 2 = 0 THEN 1 ELSE -1

\* np.sin at the phase p*pi/4 + r/4.
Sin(p, r) ==
    LET m == p % 8 IN
    IF r = 0 /\ m % 2 = 0
    THEN Num(2 * (CASE m = 0 -> 0 [] m = 2 -> 1 [] m = 4 -> 0 [] m = 6 -> -1))
    ELSE IF m >= 4
         THEN [a |-> -2, p |-> m - 4, r |-> r, g |-> 0, o |-> 0]
         ELSE [a |-> 2, p |-> m, r |-> r, g |-> 0, o |-> 0]

\* k * s + c/2 for a whole number k: the source's amplitude * x + offset.
Affine(k, s, c) ==
    IF k * s.a = 0
    THEN [a |-> 0, p |-> 0, r |-> 0, g |-> k * s.g, o |-> k * s.o + c]
    ELSE [a |-> k * s.a, p |-> s.p, r |-> s.r, g |-> k * s.g, o |-> k * s.o + c]

\* (h/2) * s: a product with the half-integer h/2.
TimesHalves(h, s) ==
    IF h * s.a = 0
    THEN [a |-> 0, p |-> 0, r |-> 0, g |-> (h * s.g) \div 2, o |-> (h * s.o) \div 2]
    ELSE [a |-> (h * s.a) \div 2, p |-> s.p, r |-> s.r,
          g |-> (h * s.g) \div 2, o |-> (h * s.o) \div 2]

\* Sign of a sample (np.sign, and the comparisons with 0).
Sign(s) ==
    CASE s.a = 0 /\ s.g = 0 -> Sgn(s.o)
      [] s.a = 0 /\ s.o = 0 /\ s.g # 0 -> Sgn(s.g)
      [] s.a # 0 /\ s.g = 0 /\ s.o = 0 -> Sgn(s.a) * SinSign(s.p, s.r)

\* s > 0.1 (the ASK threshold), as numpy's boolean.
GtTenth(s) == CASE IsExact(s) -> 5 * s.o > 1

\* A whole-number sample as an integer (message samples are whole volts).
Whole(s) == CASE IsExact(s) /\ s.o % 2 = 0 -> s.o \div 2

\* numpy's bool as a number: True is 1, False is 0.
Bool(b) == IF b THEN Num(2) ELSE Num(0)

\* --------------------------------------------------------------- time axis

\* np.linspace(start, ..., n): n equally spaced instants, a quarter second apart.
Linspace(start, n) == [i \in 1..n |-> start + (i - 1)]

\* np.zeros_like(t)
ZerosLike(t) == [i \in 1..Len(t) |-> Num(0)]

IsZeros(buf) == \A i \in 1..Len(buf) : buf[i] = Num(0)

\* ------------------------------------------------------- signal generators

\* scipy.signal.square(2*pi*f*t, duty) at instant tq: 1 while the phase, as a
\* fraction of the period, is below the duty cycle (tenths), else -1.
Square(f, tq, dutyTenths) ==
    IF 10 * ((f * tq) % 4) < 4 * dutyTenths THEN Num(2) ELSE Num(-2)

\* scipy.signal.sawtooth(2*pi*f*t, 0.5) at instant tq: the symmetric triangle.
Triangle(f, tq) ==
    LET q == (f * tq) % 4 IN IF q < 2 THEN Num(2 * (q - 1)) ELSE Num(2 * (3 - q))

\* generate_signal with a fall-through that returns the sine instead of zeros.
generate_signal_sine_fallthrough(signal_type, t, amplitude, frequency, offset, duty, bits) ==
    CASE signal_type = "Square Wave" ->
           [i \in 1..Len(t) |-> Affine(amplitude, Square(frequency, t[i], 5), offset)]
      [] signal_type = "Triangle Wave" ->
           [i \in 1..Len(t) |-> Affine(amplitude, Triangle(frequency, t[i]), offset)]
      [] signal_type = "Clock Pulse" ->
           [i \in 1..Len(t) |-> Affine(amplitude, Square(frequency, t[i], duty), offset)]
      [] signal_type = "Binary Data" ->
           [i \in 1..Len(t) |-> Affine(amplitude, Num(2 * bits[i]), offset)]
      [] OTHER ->
           [i \in 1..Len(t) |-> Affine(amplitude, Sin(2 * frequency * t[i], 0), offset)]

\* generate_signal.  bits is the outcome of the np.random draws of "Binary Data"
\* (one bit per sample); offset is in halves, duty in tenths.
generate_signal(signal_type, t, amplitude, frequency, offset, duty, bits) ==
    CASE signal_type = "Sine Wave" ->
           [i \in 1..Len(t) |-> Affine(amplitude, Sin(2 * frequency * t[i], 0), offset)]
      [] signal_type = "Square Wave" ->
           [i \in 1..Len(t) |-> Affine(amplitude, Square(frequency, t[i], 5), offset)]
      [] signal_type = "Triangle Wave" ->
           [i \in 1..Len(t) |-> Affine(amplitude, Triangle(frequency, t[i]), offset)]
      [] signal_type = "Clock Pulse" ->
           [i \in 1..Len(t) |-> Affine(amplitude, Square(frequency, t[i], duty), offset)]
      [] signal_type = "Binary Data" ->
           [i \in 1..Len(t) |-> Affine(amplitude, Num(2 * bits[i]), offset)]
      [] signal_type = "Carrier Wave" ->
           [i \in 1..Len(t) |-> Affine(amplitude, Sin(2 * frequency * t[i], 0), offset)]
      [] OTHER -> ZerosLike(t)

\* ---------------------------------------------------------------- modulation

\* A returned array, or the exception the call raises.
Returned(buf) == [raised |-> FALSE, buf |-> buf]

Raised == [raised |-> TRUE, buf |-> << >>]

\* np.cumsum(message_signal)[i], message samples being whole numbers.
RECURSIVE CumSum(_, _)
CumSum(msg, i) == IF i = 0 THEN 0 ELSE CumSum(msg, i - 1) + Whole(msg[i])

\* modulate_signal.  The carrier is sin(2*pi*carrier_freq*t); t[1] - t[0] of
\* the FM branch raises IndexError on an axis of fewer than two instants.
modulate_signal(carrier_freq, message_signal, t, mod_type, mod_index) ==
    LET carrier == [i \in 1..Len(t) |-> Sin(2 * carrier_freq * t[i], 0)] IN
    CASE mod_type = "AM" ->
           Returned([i \in 1..Len(t) |->
                       Affine(1 + mod_index * Whole(message_signal[i]), carrier[i], 0)])
      [] mod_type = "FM" ->
           IF Len(t) < 2 THEN Raised
           ELSE Returned([i \in 1..Len(t) |->
                   Sin(2 * carrier_freq * t[i],
                       mod_index * CumSum(message_signal, i) * (t[2] - t[1]))])
      [] mod_type = "PM" ->
           Returned([i \in 1..Len(t) |->
                       Sin(2 * carrier_freq * t[i],
                           4 * mod_index * Whole(message_signal[i]))])
      [] mod_type = "ASK" ->
           Returned([i \in 1..Len(t) |->
                       TimesHalves(IF Sign(message_signal[i]) > 0 THEN 2 ELSE 1,
                                   carrier[i])])
      [] mod_type = "FSK" ->
           Returned([i \in 1..Len(t) |->
                       IF Sign(message_signal[i]) > 0
                       THEN Sin(3 * carrier_freq * t[i], 0)
                       ELSE Sin(2 * carrier_freq * t[i], 0)])
      [] mod_type = "PSK" ->
           Returned([i \in 1..Len(t) |->
                       Affine(Sign(message_signal[i]), carrier[i], 0)])
      [] OTHER -> Returned(ZerosLike(t))

\* -------------------------------------------------------------- demodulation

\* np.angle(x + 1j*x) in units of pi/4: the argument of x*(1+j).
Angle(s) == LET sg == Sign(s) IN IF sg > 0 THEN 1 ELSE IF sg < 0 THEN -3 ELSE 0

\* The correction np.unwrap adds after the jump dd (units of pi/4: the period
\* is 8, the discontinuity threshold 4).
UnwrapCorrect(dd) ==
    LET m == ((dd + 4) % 8) - 4
        ddmod == IF m = -4 /\ dd > 0 THEN 4 ELSE m
    IN  IF AbsInt(dd) < 4 THEN 0 ELSE ddmod - dd

RECURSIVE CorrectSum(_, _)
CorrectSum(ph, i) ==
    IF i <= 1 THEN 0 ELSE CorrectSum(ph, i - 1) + UnwrapCorrect(ph[i] - ph[i - 1])

\* np.unwrap
Unwrap(ph) == [i \in 1..Len(ph) |-> ph[i] + CorrectSum(ph, i)]

\* np.diff in place of np.gradient: forward differences, one sample fewer.
GradientAsDiff(f) == [i \in 1..(Len(f) - 1) |-> 2 * (f[i + 1] - f[i])]

\* np.gradient of a sequence in units of pi/4, in units of pi/8: one-sided
\* differences at the two ends, central differences inside.
Gradient(f) ==
    LET n == Len(f) IN
    [i \in 1..n |->
        IF i = 1 THEN 2 * (f[2] - f[1])
        ELSE IF i = n THEN 2 * (f[n] - f[n - 1])
        ELSE f[i + 1] - f[i - 1]]

\* demodulate_signal with a fall-through that returns its input.
demodulate_signal_identity(signal, mod_type) ==
    CASE mod_type = "AM" ->
           Returned([i \in 1..Len(signal) |-> Affine(Sign(signal[i]), signal[i], 0)])
      [] mod_type = "FM" \/ mod_type = "PM" ->
           IF Len(signal) < 2 THEN Raised
           ELSE LET grad == Gradient(Unwrap([i \in 1..Len(signal) |-> Angle(signal[i])]))
                IN  Returned([i \in 1..Len(grad) |-> PiEighths(grad[i])])
      [] mod_type = "ASK" ->
           Returned([i \in 1..Len(signal) |-> Bool(GtTenth(signal[i]))])
      [] mod_type = "PSK" \/ mod_type = "FSK" ->
           Returned([i \in 1..Len(signal) |-> Bool(Sign(signal[i]) > 0)])
      [] OTHER -> Returned(signal)

\* demodulate_signal.  np.gradient raises ValueError on fewer than two samples.
demodulate_signal(signal, mod_type) ==
    CASE mod_type = "AM" ->
           Returned([i \in 1..Len(signal) |-> Affine(Sign(signal[i]), signal[i], 0)])
      [] mod_type = "FM" \/ mod_type = "PM" ->
           IF Len(signal) < 2 THEN Raised
           ELSE LET grad == Gradient(Unwrap([i \in 1..Len(signal) |-> Angle(signal[i])]))
                IN  Returned([i \in 1..Len(grad) |-> PiEighths(grad[i])])
      [] mod_type = "ASK" ->
           Returned([i \in 1..Len(signal) |-> Bool(GtTenth(signal[i]))])
      [] mod_type = "PSK" \/ mod_type = "FSK" ->
           Returned([i \in 1..Len(signal) |-> Bool(Sign(signal[i]) > 0)])
      [] OTHER -> Returned([i \in 1..Len(signal) |-> Num(0)])

\* ------------------------------------------------------------------- strings

\* Python's "needle in hay" on strings.
Contains(needle, hay) ==
    \E i \in 1..(Len(hay) - Len(needle) + 1) : SubSeq(hay, i, i + Len(needle) - 1) = needle

EndsWith(s, suffix) ==
    Len(s) >= Len(suffix) /\ SubSeq(s, Len(s) - Len(suffix) + 1, Len(s)) = suffix

\* s.split()[0] for a string that does not start with a blank.
SplitFirst(s) ==
    LET blanks == {i \in 1..Len(s) : SubSeq(s, i, i) = " "} IN
    IF blanks = {} THEN s
    ELSE SubSeq(s, 1, (CHOOSE i \in blanks : \A j \in blanks : i <= j) - 1)

\* An optional value: Python's None, or a value.
None == << >>

Some(v) == << v >>

\* repr of the values a channel tuple holds.
ReprBool(b) == IF b THEN "True" ELSE "False"

ReprStr(s) == "'" \o s \o "'"

ReprWhole(n) == ToString(n) \o ".0"

ReprHalves(h) ==
    IF h % 2 = 0 THEN ToString(h \div 2) \o ".0"
    ELSE (IF h < 0 THEN "-" ELSE "") \o ToString(AbsInt(h) \div 2) \o ".5"

ReprTenths(d) == ToString(d \div 10) \o "." \o ToString(d % 10)

\* str(channel_params): the repr of the 8-tuple channel_controls returns.
StrParams(cp) ==
    "(" \o ReprBool(cp[1]) \o ", " \o ReprStr(cp[2]) \o ", " \o ReprWhole(cp[3]) \o ", "
        \o (IF Len(cp[4]) = 0 THEN "None" ELSE ReprWhole(cp[4][1])) \o ", "
        \o ReprHalves(cp[5]) \o ", "
        \o (IF Len(cp[6]) = 0 THEN "None" ELSE ReprTenths(cp[6][1])) \o ", "
        \o (IF Len(cp[7]) = 0 THEN "None" ELSE ReprStr(cp[7][1])) \o ", "
        \o (IF Len(cp[8]) = 0 THEN "None" ELSE ReprWhole(cp[8][1])) \o ")"

\* ------------------------------------------------------------------ controls

Channels == 1..NumChannels

basic_signal_options == {"None", "Message Signal", "Clock Pulse", "Carrier Wave"}

mod_signal_options ==
    {"None", "AM Modulated", "FM Modulated", "PM Modulated",
     "ASK Modulated", "PSK Modulated", "FSK Modulated"}

demod_signal_options ==
    {"None", "AM Demodulated", "FM Demodulated", "PM Demodulated",
     "ASK Demodulated", "PSK Demodulated", "FSK Demodulated"}

\* Slider positions followed by the model (each slider's default among them).
CarrierFreqs == {1, 3, 10}

MessageFreqs == {1, 2}

Amplitudes == {1, 2}

Frequencies == {1, 2}

\* Offsets in halves of a volt, duty cycles in tenths.
Offsets == {0, 1}

Duties == {3, 5}

ModIndices == {1, 2}

Buttons == {"Freeze", "Run", "Reset"}

\* key=f"{key_prefix}_<field>" with key_prefix f"ch{i+1}".
Key(ch, field) == "ch" \o ToString(ch) \o "_" \o field

GlobalKeys == {"global_carrier_freq", "global_message_freq"}

ChannelFields ==
    {"enabled", "basic_signal", "mod_signal", "demod_signal",
     "amp", "duty", "freq", "offset", "mod"}

WidgetKeys == GlobalKeys \cup {Key(ch, f) : ch \in Channels, f \in ChannelFields}

\* The value each widget shows before the user touches it.
DefaultValue(key) ==
    CASE key = "global_carrier_freq" -> 10
      [] key = "global_message_freq" -> 1
      [] EndsWith(key, "_enabled") -> TRUE
      [] EndsWith(key, "_basic_signal") -> "None"
      [] EndsWith(key, "_mod_signal") -> "None"
      [] EndsWith(key, "_demod_signal") -> "None"
      [] EndsWith(key, "_amp") -> 1
      [] EndsWith(key, "_duty") -> 5
      [] EndsWith(key, "_freq") -> 1
      [] EndsWith(key, "_offset") -> 0
      [] EndsWith(key, "_mod") -> 1

\* The values the user can give a control.
Options(key) ==
    CASE key = "global_carrier_freq" -> CarrierFreqs
      [] key = "global_message_freq" -> MessageFreqs
      [] key \in Buttons -> {TRUE}
      [] EndsWith(key, "_enabled") -> BOOLEAN
      [] EndsWith(key, "_basic_signal") -> basic_signal_options
      [] EndsWith(key, "_mod_signal") -> mod_signal_options
      [] EndsWith(key, "_demod_signal") -> demod_signal_options
      [] EndsWith(key, "_amp") -> Amplitudes
      [] EndsWith(key, "_duty") -> Duties
      [] EndsWith(key, "_freq") -> Frequencies
      [] EndsWith(key, "_offset") -> Offsets
      [] EndsWith(key, "_mod") -> ModIndices

\* channel_controls: the tuple (enabled, signal_type, amplitude, frequency,
\* offset, duty, mod_type, mod_index) of channel ch, read from the widgets w.
channel_controls(ch, w) ==
    LET enabled == w[Key(ch, "enabled")]
        basic_signal == w[Key(ch, "basic_signal")]
        signal_type == w[Key(ch, "mod_signal")]
        demod_selected == w[Key(ch, "demod_signal")]
        amplitude == w[Key(ch, "amp")]
        offset == w[Key(ch, "offset")]
        mod_type == SplitFirst(signal_type)
    IN  IF basic_signal # "None"
        THEN << enabled, basic_signal, amplitude, Some(w[Key(ch, "freq")]), offset,
                Some(IF basic_signal = "Clock Pulse" THEN w[Key(ch, "duty")] ELSE 5),
                None, None >>
        ELSE IF signal_type # "None"
        THEN << enabled, signal_type, amplitude, None, offset, None, Some(mod_type),
                Some(IF mod_type \in {"AM", "FM", "PM"} THEN w[Key(ch, "mod")] ELSE 1) >>
        ELSE IF demod_selected # "None"
        THEN << enabled, demod_selected, amplitude, None, offset, None, None, None >>
        ELSE << enabled, "None", 1, Some(1), 0, Some(5), None, None >>

\* The widgets channel_controls puts on the page for channel ch.
channel_widgets(ch, w) ==
    {Key(ch, "enabled"), Key(ch, "basic_signal")} \cup
    IF w[Key(ch, "basic_signal")] # "None"
    THEN {Key(ch, "amp"), Key(ch, "freq"), Key(ch, "offset")} \cup
         (IF w[Key(ch, "basic_signal")] = "Clock Pulse" THEN {Key(ch, "duty")} ELSE {})
    ELSE {Key(ch, "mod_signal")} \cup
         IF w[Key(ch, "mod_signal")] # "None"
         THEN {Key(ch, "amp"), Key(ch, "offset")} \cup
              (IF SplitFirst(w[Key(ch, "mod_signal")]) \in {"AM", "FM", "PM"}
               THEN {Key(ch, "mod")} ELSE {})
         ELSE {Key(ch, "demod_signal")} \cup
              IF w[Key(ch, "demod_signal")] # "None"
              THEN {Key(ch, "amp"), Key(ch, "offset")}
              ELSE {}

\* ------------------------------------------------------ rendering a channel

\* The signal of an enabled channel: the if/elif chain of main's channel loop.
\* calls names the signal functions the chain invokes.
channel_signal(channel_params, t, carrier_freq, message_signal, carrier_signal) ==
    LET signal_type == channel_params[2]
        amplitude == channel_params[3]
        offset == channel_params[5]
        scaled(buf) == [j \in 1..Len(buf) |-> Affine(amplitude, buf[j], offset)]
    IN
    IF Contains("Basic", StrParams(channel_params))
    THEN CASE signal_type = "Message Signal" ->
                [raised |-> FALSE, buf |-> scaled(message_signal), calls |-> {}]
           [] signal_type = "Clock Pulse" ->
                [raised |-> FALSE,
                 buf |-> generate_signal("Clock Pulse", t, amplitude, channel_params[4][1],
                                         offset, channel_params[6][1], << >>),
                 calls |-> {"generate_signal"}]
           [] signal_type = "Carrier Wave" ->
                [raised |-> FALSE, buf |-> scaled(carrier_signal), calls |-> {}]
           [] OTHER -> [raised |-> FALSE, buf |-> ZerosLike(t), calls |-> {}]
    ELSE IF Contains("Modulated", signal_type)
    THEN LET m == modulate_signal(carrier_freq, message_signal, t,
                                  channel_params[7][1], channel_params[8][1])
         IN  [raised |-> m.raised,
              buf |-> IF m.raised THEN << >> ELSE scaled(m.buf),
              calls |-> {"modulate_signal"}]
    ELSE IF Contains("Demodulated", signal_type)
    THEN LET mod_type == SplitFirst(signal_type)
             m == modulate_signal(carrier_freq, message_signal, t, mod_type, 1)
             d == IF m.raised THEN Raised ELSE demodulate_signal(m.buf, mod_type)
         IN  [raised |-> d.raised,
              buf |-> IF d.raised THEN << >> ELSE scaled(d.buf),
              calls |-> IF m.raised THEN {"modulate_signal"}
                        ELSE {"modulate_signal", "demodulate_signal"}]
    ELSE [raised |-> FALSE, buf |-> ZerosLike(t), calls |-> {}]

\* The channel loop without its disabled path.
render_channel_always(i, channel_params, t, carrier_freq, message_signal, carrier_signal) ==
    LET r == channel_signal(channel_params, t, carrier_freq, message_signal, carrier_signal)
    IN  [raised |-> r.raised, signal |-> r.buf,
         name |-> "CH" \o ToString(i) \o ": " \o channel_params[2],
         visible |-> TRUE, calls |-> r.calls]

\* One pass of main's channel loop, for channel i (1-based, the source's i+1).
render_channel(i, channel_params, t, carrier_freq, message_signal, carrier_signal) ==
    IF ~channel_params[1]
    THEN [raised |-> FALSE, signal |-> ZerosLike(t),
          name |-> "CH" \o ToString(i) \o ": Disabled", visible |-> FALSE, calls |-> {}]
    ELSE LET r == channel_signal(channel_params, t, carrier_freq,
                                 message_signal, carrier_signal)
         IN  [raised |-> r.raised, signal |-> r.buf,
              name |-> "CH" \o ToString(i) \o ": " \o channel_params[2],
              visible |-> TRUE, calls |-> r.calls]

colors == << "yellow", "cyan", "magenta" >>

\* The traces plot_signals adds: one per visible channel, in channel order.
RECURSIVE Traces(_, _, _, _, _)
Traces(t, sigs, nms, vis, n) ==
    IF n = 0 THEN << >>
    ELSE LET before == Traces(t, sigs, nms, vis, n - 1) IN
         IF vis[n]
         THEN Append(before, [x |-> t, y |-> sigs[n], name |-> nms[n], color |-> colors[n]])
         ELSE before

\* plot_signals: the figure, with the time axis it is drawn on.
plot_signals(t, sigs, nms, vis) ==
    [x |-> t, traces |-> Traces(t, sigs, nms, vis, Len(sigs))]

\* --------------------------------------------------------------------- state

VARIABLES
    widgets,         \* the value of every keyed sidebar widget
    frozen,          \* st.session_state['frozen']: None while the key is absent
    rendered,        \* the controls on the page, which the user can operate
    clicked,         \* the button whose click started the script run, or "None"
    edits,           \* user interactions so far
    pc,              \* where the script run is in main
    t,               \* main's locals, from here ...
    carrier_freq,
    message_signal,
    carrier_signal,
    channels,
    signals,
    names,
    visible,         \* ... to here
    calls,           \* per channel, the signal functions the channel loop invoked
    live_plot,       \* the st.empty() placeholder: empty, or the figure it shows
    ticks,           \* frames the redraw loop has emitted in this script run
    fn,              \* the signal function applied on its own, or "none"
    arg,             \* its arguments
    out              \* what it returned

session == << widgets, frozen, rendered, clicked, edits >>

locals == << t, carrier_freq, message_signal, carrier_signal, channels,
             signals, names, visible, calls >>

harness == << fn, arg, out >>

vars == << session, pc, locals, live_plot, ticks, harness >>

\* ------------------------------------------------- the oscilloscope session

NoArg == [tag |-> "", buf |-> << >>, amplitude |-> 0, frequency |-> 0,
          offset |-> 0, duty |-> 0, mod_index |-> 0]

\* A browser session opens: nothing is in st.session_state, nothing is on the
\* page, and the script is about to run for the first time.
InitSession ==
    /\ widgets = [k \in WidgetKeys |-> DefaultValue(k)]
    /\ frozen = None
    /\ rendered = {}
    /\ clicked = "None"
    /\ edits = 0
    /\ pc = "start"
    /\ t = << >>
    /\ carrier_freq = 0
    /\ message_signal = << >>
    /\ carrier_signal = << >>
    /\ channels = << >>
    /\ signals = << >>
    /\ names = << >>
    /\ visible = << >>
    /\ calls = << >>
    /\ live_plot = << >>
    /\ ticks = 0

Init ==
    /\ InitSession
    /\ fn = "none"
    /\ arg = NoArg
    /\ out = Returned(<< >>)

\* main, from its first line to the end of the sidebar block: the time axis,
\* the global sliders, the global signals and the three channel_controls.
ReadControls ==
    /\ pc = "start"
    /\ t' = Linspace(AxisStart, AxisLen)
    /\ carrier_freq' = widgets["global_carrier_freq"]
    /\ message_signal' =
          generate_signal("Sine Wave", t', 1, widgets["global_message_freq"], 0, 5, << >>)
    /\ carrier_signal' =
          generate_signal("Carrier Wave", t', 1, widgets["global_carrier_freq"], 0, 5, << >>)
    /\ channels' = [i \in Channels |-> channel_controls(i, widgets)]
    /\ rendered' = GlobalKeys
                    \cup UNION {channel_widgets(i, widgets) : i \in Channels}
                    \cup (rendered \cap Buttons)
    /\ pc' = "render"
    /\ UNCHANGED << widgets, frozen, clicked, edits, signals, names, visible,
                    calls, live_plot, ticks, harness >>

\* main's channel loop: signals, names and visible, one entry per channel.
RenderChannels ==
    /\ pc = "render"
    /\ LET r == [i \in Channels |->
                   render_channel(i, channels[i], t, carrier_freq,
                                  message_signal, carrier_signal)]
       IN  /\ signals' = [i \in Channels |-> r[i].signal]
           /\ names' = [i \in Channels |-> r[i].name]
           /\ visible' = [i \in Channels |-> r[i].visible]
           /\ calls' = [i \in Channels |-> r[i].calls]
           /\ pc' = IF \E i \in Channels : r[i].raised THEN "crashed" ELSE "plot"
    /\ UNCHANGED << session, t, carrier_freq, message_signal, carrier_signal,
                    channels, live_plot, ticks, harness >>

\* A script run ends before its last line (a rerun is requested by a widget, or
\* st.experimental_rerun() is called) and the script runs again: the locals of
\* the run that ends, its placeholder among them, are gone.
Restart ==
    /\ pc' = "start"
    /\ t' = << >>
    /\ carrier_freq' = 0
    /\ message_signal' = << >>
    /\ carrier_signal' = << >>
    /\ channels' = << >>
    /\ signals' = << >>
    /\ names' = << >>
    /\ visible' = << >>
    /\ calls' = << >>
    /\ live_plot' = << >>
    /\ ticks' = 0

\* live_plot = st.empty(), and the default of session_state['frozen'].
OpenPlot ==
    /\ pc = "plot"
    /\ live_plot' = << >>
    /\ frozen' = IF frozen = None THEN Some(FALSE) ELSE frozen
    /\ pc' = "loop"
    /\ UNCHANGED << widgets, rendered, clicked, edits, locals, ticks, harness >>

\* The test of "while not st.session_state['frozen']" and what follows it: one
\* more frame on live_plot while not frozen; once frozen, the loop is left, the
\* three buttons are put on the page and the clicked one is handled.
Redraw ==
    /\ pc = "loop"
    /\ IF ~frozen[1]
       THEN /\ ticks < MaxTicks
            /\ live_plot' = << plot_signals(t, signals, names, visible) >>
            /\ ticks' = ticks + 1
            /\ UNCHANGED << session, pc, locals, harness >>
       ELSE /\ rendered' = rendered \cup Buttons
            /\ clicked' = "None"
            /\ IF clicked = "Reset"
               THEN Restart /\ UNCHANGED << widgets, frozen, edits, harness >>
               ELSE /\ frozen' = IF clicked = "Freeze" THEN Some(TRUE)
                                 ELSE IF clicked = "Run" THEN Some(FALSE)
                                 ELSE frozen
                    /\ pc' = "done"
                    /\ UNCHANGED << widgets, edits, locals, live_plot, ticks, harness >>

\* The user operates a control that is on the page.  The widget takes its new
\* value and the script runs again.  A script that is running stops at its next
\* st call; up to that call it only computes locals (the channel loop makes no
\* st call, and the redraw loop makes one for every frame), so the interaction
\* and the stop are one step.
Interact ==
    /\ edits < MaxEdits
    /\ \E key \in rendered : \E v \in Options(key) :
          /\ key \notin Buttons => v # widgets[key]
          /\ widgets' = IF key \in Buttons THEN widgets ELSE [widgets EXCEPT ![key] = v]
          /\ clicked' = IF key \in Buttons THEN key ELSE "None"
    /\ edits' = edits + 1
    /\ Restart
    /\ UNCHANGED << frozen, rendered, harness >>

Next == ReadControls \/ RenderChannels \/ OpenPlot \/ Redraw \/ Interact

Spec == Init /\ [][Next]_vars

\* ------------------------------------------- the signal functions on their own

\* The tags generate_signal and modulate_signal/demodulate_signal know.
SignalKinds ==
    {"Sine Wave", "Square Wave", "Triangle Wave", "Clock Pulse", "Binary Data",
     "Carrier Wave"}

Schemes == {"AM", "FM", "PM", "ASK", "FSK", "PSK"}

\* Tags handed to the functions: the known ones, and some neither function knows.
Tags == SignalKinds \cup Schemes \cup {"Sawtooth", "QAM", "None", "am"}

\* Buffers of one to MaxBufLen samples of -1, 0 or 1 volt.
Buffers == UNION {[1..n -> {Num(-2), Num(0), Num(2)}] : n \in 1..MaxBufLen}

\* The arguments of one call: a tag, a buffer (the message of modulate_signal,
\* the signal of demodulate_signal; its length is the length of the time axis)
\* and the scalar parameters.
InitFn ==
    /\ InitSession
    /\ fn = "none"
    /\ arg \in [tag : Tags, buf : Buffers, amplitude : Amplitudes, frequency : {1, 3},
                 offset : Offsets, duty : Duties, mod_index : ModIndices]
    /\ out = Returned(<< >>)

ArgAxis == Linspace(AxisStart, Len(arg.buf))

ApplyGenerate ==
    /\ fn = "none"
    /\ fn' = "generate_signal"
    /\ \E bits \in [1..Len(arg.buf) -> {0, 1}] :
          out' = Returned(generate_signal(arg.tag, ArgAxis, arg.amplitude, arg.frequency,
                                          arg.offset, arg.duty, bits))
    /\ UNCHANGED << arg, session, pc, locals, live_plot, ticks >>

ApplyModulate ==
    /\ fn = "none"
    /\ fn' = "modulate_signal"
    /\ out' = modulate_signal(arg.frequency, arg.buf, ArgAxis, arg.tag, arg.mod_index)
    /\ UNCHANGED << arg, session, pc, locals, live_plot, ticks >>

ApplyDemodulate ==
    /\ fn = "none"
    /\ fn' = "demodulate_signal"
    /\ out' = demodulate_signal(arg.buf, arg.tag)
    /\ UNCHANGED << arg, session, pc, locals, live_plot, ticks >>

NextFn == ApplyGenerate \/ ApplyModulate \/ ApplyDemodulate

SpecFn == InitFn /\ [][NextFn]_vars

\* --------------------------------------------------------------- properties

\* The returned buffer is all zeros and as long as the time axis.
ZeroBufferReturned ==
    ~out.raised /\ Len(out.buf) = Len(arg.buf) /\ IsZeros(out.buf)

\* C7: for every kind tag generate_signal does not know, and every scheme tag
\* modulate_signal does not know, the function returns (it does not raise) an
\* all-zero buffer of the length of the time axis.
C7_UnknownTagZeroBuffer ==
    /\ (fn = "generate_signal" /\ arg.tag \notin SignalKinds) => ZeroBufferReturned
    /\ (fn = "modulate_signal" /\ arg.tag \notin Schemes) => ZeroBufferReturned

C7_Witness ==
    /\ fn = "generate_signal"
    /\ arg.tag = "Sawtooth"
    /\ Len(arg.buf) >= 2
    /\ arg.amplitude = 2
    /\ arg.offset = 1
    /\ ZeroBufferReturned

\* C8 as the specification states it: for every scheme tag demodulate_signal does not know, it
\* returns its input buffer unchanged, without raising.
C8_UnknownSchemeIdentity ==
    (fn = "demodulate_signal" /\ arg.tag \notin Schemes)
        => ~out.raised /\ out.buf = arg.buf

\* C8 as the code has it: for every scheme tag demodulate_signal does not know,
\* it returns, without raising, an all-zero buffer as long as its input.
C8_UnknownSchemeZeroBuffer ==
    (fn = "demodulate_signal" /\ arg.tag \notin Schemes) => ZeroBufferReturned

C8_Witness ==
    /\ fn = "demodulate_signal"
    /\ arg.tag = "QAM"
    /\ Len(arg.buf) >= 2
    /\ ~IsZeros(arg.buf)
    /\ ZeroBufferReturned

\* C9 as the specification states it: for an input of N >= 2 samples, demodulate_signal returns N-1
\* samples for FM and N samples for AM, PM, ASK, PSK and FSK.
C9_FMOneShorter ==
    (fn = "demodulate_signal" /\ arg.tag \in Schemes /\ Len(arg.buf) >= 2)
        => /\ ~out.raised
           /\ Len(out.buf) = IF arg.tag = "FM" THEN Len(arg.buf) - 1 ELSE Len(arg.buf)

\* C9 as the code has it: for an input of N >= 2 samples, demodulate_signal
\* returns N samples for every one of AM, FM, PM, ASK, PSK and FSK.
C9_SameLength ==
    (fn = "demodulate_signal" /\ arg.tag \in Schemes /\ Len(arg.buf) >= 2)
        => ~out.raised /\ Len(out.buf) = Len(arg.buf)

C9_Witness ==
    /\ fn = "demodulate_signal"
    /\ arg.tag = "FM"
    /\ Len(arg.buf) >= 2
    /\ arg.buf[1] # arg.buf[2]
    /\ ~out.raised
    /\ Len(out.buf) = Len(arg.buf)

\* The session is Running: the redraw loop is reached and 'frozen' is False.
Running == pc = "loop" /\ frozen = Some(FALSE)

\* The start of the time axis of the frame on live_plot.
FrameStart(plot) == plot[1].x[1]

\* C1: while the session is Running, every tick of the redraw loop after the
\* first emits a frame whose time axis starts strictly later than the time
\* axis of the frame the tick before it emitted.
C1_FrameStartIncreases ==
    [][(Running /\ ticks >= 1 /\ ticks' = ticks + 1)
          => FrameStart(live_plot') > FrameStart(live_plot)]_vars

\* C2: in every Running state a Freeze action is accepted: while the redraw
\* loop runs, the Freeze button is on the page for the user to press.
C2_FreezeAcceptedWhileRunning == Running => "Freeze" \in rendered

\* The script has gone through the channel loop: signals, names and visible
\* hold one entry per channel.
Rendered == pc \in {"plot", "loop", "done"}

\* C6: whatever is selected for it, a channel whose enabled flag is false gets
\* an all-zero buffer of the length of the time axis with visible = False, no
\* generator, modulator or demodulator is called for it, and no frame shows it.
C6_DisabledChannelZero ==
    \A i \in Channels :
        (Rendered /\ ~channels[i][1])
            => /\ Len(signals[i]) = Len(t)
               /\ IsZeros(signals[i])
               /\ visible[i] = FALSE
               /\ calls[i] = {}
               /\ \A p \in 1..Len(live_plot) : \A k \in 1..Len(live_plot[p].traces) :
                      live_plot[p].traces[k].color # colors[i]

C6_Witness ==
    /\ pc = "loop"
    /\ ticks >= 1
    /\ \E i \in Channels :
          /\ ~channels[i][1]
          /\ channels[i][2] = "FM Modulated"
          /\ IsZeros(signals[i])
          /\ ~visible[i]

\* The signal the basic-signal branch of the channel loop computes.
BasicSignal(cp) ==
    CASE cp[2] = "Message Signal" ->
           [j \in 1..Len(t) |-> Affine(cp[3], message_signal[j], cp[5])]
      [] cp[2] = "Clock Pulse" ->
           generate_signal("Clock Pulse", t, cp[3], cp[4][1], cp[5], cp[6][1], << >>)
      [] cp[2] = "Carrier Wave" ->
           [j \in 1..Len(t) |-> Affine(cp[3], carrier_signal[j], cp[5])]

\* C10: for every enabled channel whose selection is Message Signal, Clock
\* Pulse or Carrier Wave, the frame entry is the signal of the basic-signal
\* branch (message_signal*amplitude+offset, the clock pulse of the channel's
\* frequency and duty, carrier_signal*amplitude+offset), not the zero buffer.
C10_BasicBranchTaken ==
    \A i \in Channels :
        (Rendered /\ channels[i][1]
                  /\ channels[i][2] \in {"Message Signal", "Clock Pulse", "Carrier Wave"})
            => signals[i] = BasicSignal(channels[i])

\* The code after the redraw loop is never reached: 'frozen' is never True and
\* the Freeze, Run and Reset buttons are never on the page.
FrozenNeverSet == frozen # Some(TRUE) /\ rendered \cap Buttons = {} /\ pc # "done"

====
